---- MODULE Spec2Model ----
(***************************************************************************)
(* Model of forge's ContractRunner (src/forge/src/runner.rs): setup,       *)
(* run_tests, run_test, run_fuzz_test and run_invariant_test.              *)
(*                                                                         *)
(* Strings are sequences of character codes so that to_lowercase,          *)
(* starts_with and signature() are computed, not assumed.                  *)
(***************************************************************************)
EXTENDS Integers, Sequences, FiniteSets, TLC

(* ------------------------------ bounds --------------------------------- *)
\* number of predeploy libraries is 0 or MaxLibs
MaxLibs == 2
\* the executor's backing store takes the values 0..DbSize-1
DbSize == 3
\* longest captured call sequence of an invariant failure (invariant_depth)
MaxDepth == 3
\* invariant_depth used when the whole suite is run
SuiteDepth == 1
\* width in bits of the model's u64
U64Bits == 4
\* TestOptions.fuzz_runs: the case budget of a fuzz test
FuzzRuns == 2
\* TestOptions.invariant_runs
InvariantRuns == 1

(* ------------------------------ strings -------------------------------- *)
S_test == <<116, 101, 115, 116>>
S_testFail == <<116, 101, 115, 116, 70, 97, 105, 108>>
S_invariant == <<105, 110, 118, 97, 114, 105, 97, 110, 116>>
S_setup == <<115, 101, 116, 117, 112>>
S_setUp == <<115, 101, 116, 85, 112>>
S_helper == <<104, 101, 108, 112, 101, 114>>
S_invariantX == <<105, 110, 118, 97, 114, 105, 97, 110, 116, 88>>
S_invariantY == <<105, 110, 118, 97, 114, 105, 97, 110, 116, 89>>
S_testA == <<116, 101, 115, 116, 65>>
S_testC == <<116, 101, 115, 116, 67>>
S_testFailB == <<116, 101, 115, 116, 70, 97, 105, 108, 66>>
S_uint256 == <<117, 105, 110, 116, 50, 53, 54>>
\* "setUp()"
S_setUpSig == <<115, 101, 116, 85, 112, 40, 41>>

\* str::to_lowercase on ASCII: 'A'..'Z' (65..90) map to 'a'..'z'
ToLowercase(s) == [i \in DOMAIN s |-> IF s[i] \in 65..90 THEN s[i] + 32 ELSE s[i]]

\* str::starts_with
StartsWith(s, p) == Len(s) >= Len(p) /\ SubSeq(s, 1, Len(p)) = p

RECURSIVE JoinTypes(_)
JoinTypes(ts) ==
    IF ts = <<>> THEN <<>>
    ELSE IF Len(ts) = 1 THEN ts[1]
    ELSE ts[1] \o <<44>> \o JoinTypes(Tail(ts))

\* ethabi Function::signature(): name(type,type,...)
Signature(f) == f.name \o <<40>> \o JoinTypes(f.inputs) \o <<41>>

(* -------------------------------- ABI ---------------------------------- *)
\* The candidate functions, in the order Abi::functions() yields them
\* (a BTreeMap keyed by name: byte order of the names).
Pool == <<
    [name |-> S_helper,     inputs |-> <<>>],
    [name |-> S_invariantX, inputs |-> <<>>],
    [name |-> S_invariantY, inputs |-> <<>>],
    [name |-> S_setUp,      inputs |-> <<>>],
    [name |-> S_setup,      inputs |-> <<>>],
    [name |-> S_testA,      inputs |-> <<>>],
    [name |-> S_testC,      inputs |-> <<S_uint256>>],
    [name |-> S_testFailB,  inputs |-> <<>> ] >>

FnIds == DOMAIN Pool

RECURSIVE SeqOfSet(_, _)
\* the members of the index set s, ascending from index i
SeqOfSet(s, i) ==
    IF i > Len(Pool) THEN <<>>
    ELSE IF i \in s THEN <<i>> \o SeqOfSet(s, i + 1)
    ELSE SeqOfSet(s, i + 1)

\* self.contract.functions() as a sequence of pool indices
Functions(a) == SeqOfSet(a, 1)

\* the filters a caller may pass: the set of signatures matches_test accepts
FilterNames == {"all", "some"}
FilterSet(flt) ==
    IF flt = "all" THEN {Signature(Pool[i]) : i \in FnIds}
    ELSE {Signature(Pool[i]) : i \in FnIds} \ {Signature(Pool[3]), Signature(Pool[6])}

\* filter.matches_test(signature)
MatchesTest(flt, sig) == sig \in FilterSet(flt)

(* --------------------------- run_tests: discovery ----------------------- *)
\* SetupFns comparing the name as written with "setup"
SetupFnsCaseSensitive(a) == SelectSeq(Functions(a), LAMBDA i : Pool[i].name = S_setup)

\* functions named "setup" case-insensitively
SetupFns(a) == SelectSeq(Functions(a), LAMBDA i : ToLowercase(Pool[i].name) = S_setup)

NeedsSetup(a) == Len(SetupFns(a)) = 1 /\ Pool[SetupFns(a)[1]].name = S_setUp

\* the multiple-setUp test counting only the functions named exactly "setUp"
TooManyCanonical(a) == Len(SelectSeq(SetupFns(a), LAMBDA i : Pool[i].name = S_setUp)) > 1

\* if setup_fns.len() > 1
TooManySetupFns(a) == Len(SetupFns(a)) > 1

\* SetupWarnings with a warning for every setup function, whatever its casing
SetupWarningsAll(a) == [k \in DOMAIN SetupFns(a) |-> Signature(Pool[SetupFns(a)[k]])]

\* one warning (identified by the signature it quotes) per mis-cased setup function
SetupWarnings(a) ==
    LET bad == SelectSeq(SetupFns(a), LAMBDA i : Pool[i].name # S_setUp)
    IN  [k \in DOMAIN bad |-> Signature(Pool[bad[k]])]

HasInvariants(a) == \E i \in a : StartsWith(Pool[i].name, S_invariant)

\* the collected unit/fuzz tests
CollectTests(a, flt, fuzz) ==
    SelectSeq(Functions(a), LAMBDA i :
        /\ StartsWith(Pool[i].name, S_test)
        /\ MatchesTest(flt, Signature(Pool[i]))
        /\ (fuzz \/ Pool[i].inputs = <<>>))

\* ShouldFail that is never set
ShouldFailNever(i) == FALSE

\* func.name.starts_with("testFail")
ShouldFail(i) == StartsWith(Pool[i].name, S_testFail)

\* the invariant functions handed to run_invariant_test
InvariantFns(a, flt) ==
    SelectSeq(Functions(a), LAMBDA i :
        /\ StartsWith(Pool[i].name, S_invariant)
        /\ MatchesTest(flt, Signature(Pool[i])))

(* ------------------------------ executor ------------------------------- *)
\* The execution environment is an external collaborator.  Its backing store
\* is abstracted to a record: a storage word and the accounts setup touches.
\* Calls are deterministic functions of the store.

\* the (sender, (target, calldata)) calls a sequence may hold
Calls == {1, 2}

FreshDb == [store |-> 0, sender_bal |-> "zero", caller_bal |-> "zero",
            contract_bal |-> "none", sender_nonce |-> 0]

Stores == 0 .. (DbSize - 1)

\* effect of a call whose state changes are committed
CommitCall(db, c) == [db EXCEPT !.store = (@ + c) % DbSize]

\* effect of a successful deployment
CommitDeploy(db) == [db EXCEPT !.store = (@ + 1) % DbSize]

\* whether test function i reverts when called in state db
TestReverts(i, db) == (db.store + i) % 2 = 1

\* Executor::is_success
IsSuccess(reverted, should_fail) == IF should_fail THEN reverted ELSE ~reverted

\* handle of the runner's own executor (self.executor)
RunnerExec == 0

\* generator: whether inspector_config().fuzzer.call_generator is Some;
\* replay / last_sequence: the call generator's replay mode and sequence
MkExec(db, tr) == [alive |-> TRUE, db |-> db, tracing |-> tr, generator |-> FALSE,
                   replay |-> FALSE, last_sequence |-> <<>>]

(* ------------------------------- state --------------------------------- *)
VARIABLES
    abi,            \* self.contract: the set of pool functions in the ABI
    filter,         \* the TestFilter passed to run_tests
    opts,           \* TestOptions
    libs,           \* number of self.predeploy_libs
    inv_breaks,     \* contract behaviour: the stores in which each invariant function reverts
    pc,             \* position of run_tests / setup / run_invariant_test
    execs,          \* executors by handle: RunnerExec and the per-test clones
    calls,          \* number of executor operations made, by kind
    setup,          \* the TestSetup under construction / returned by setup()
    lib_idx,        \* libraries deployed so far
    warnings,       \* SuiteResult.warnings
    test_results,   \* SuiteResult.test_results
    ret,            \* what run_tests (or run_invariant_test) returned
    workers,        \* the parallel unit/fuzz test invocations
    tests,          \* the collected tests
    functions,      \* the invariant functions passed to run_invariant_test
    prev_db,        \* run_invariant_test: snapshot of the backing store
    invariants,     \* InvariantFuzzTestResult.invariants, aligned with functions
    inv_idx,        \* index of the invariant whose result is being built
    call_idx,       \* captured calls replayed so far for that invariant
    cex,            \* counterexample_sequence
    cur,            \* logs / traces of the result being built
    inv_results,    \* results collected by run_invariant_test
    stats           \* InvariantFuzzTestResult.cases / reverts

vars == <<abi, filter, opts, libs, inv_breaks, pc, execs, calls, setup, lib_idx,
          warnings, test_results, ret, workers, tests, functions, prev_db,
          invariants, inv_idx, call_idx, cex, cur, inv_results, stats>>

inputVars == <<abi, filter, opts, libs, inv_breaks>>
invVars == <<functions, prev_db, invariants, inv_idx, call_idx, cex, cur, inv_results,
             stats>>

\* setup_revert / setup_fault count the executor operations of setup() that
\* returned EvmError::Execution / another error
NoCalls == [deploy |-> 0, create2 |-> 0, hook |-> 0, test |-> 0, fuzz |-> 0,
            invariant_fuzz |-> 0, replay |-> 0, set_balance |-> 0,
            setup_revert |-> 0, setup_fault |-> 0]

Count(op) == [calls EXCEPT ![op] = @ + 1]

\* an executor operation of setup() and the kind of result it returned
CountOutcome(op, o) ==
    [calls EXCEPT ![op] = @ + 1,
                  !.setup_revert = IF o = "revert" THEN @ + 1 ELSE @,
                  !.setup_fault = IF o = "fault" THEN @ + 1 ELSE @]

NoSetup == [address |-> "unset", logs |-> <<>>, traces |-> <<>>,
            setup_failed |-> FALSE, reason |-> "None"]

\* contract behaviours: the stores in which invariantX (2) and invariantY (3)
\* revert
Behaviours ==
    {[i \in {2, 3} |-> {1}],
     [i \in {2, 3} |-> IF i = 2 THEN {1, 2} ELSE {1}],
     [i \in {2, 3} |-> IF i = 2 THEN {} ELSE {2}]}

\* the state shared by every initial state: nothing has run yet
InitRest ==
    /\ calls = NoCalls
    /\ setup = NoSetup
    /\ lib_idx = 0
    /\ warnings = <<>>
    /\ test_results = <<>>
    /\ ret = "running"
    /\ workers = <<>>
    /\ tests = <<>>
    /\ functions = <<>>
    /\ prev_db = FreshDb
    /\ invariants = <<>>
    /\ inv_idx = 0
    /\ call_idx = 0
    /\ cex = <<>>
    /\ cur = [logs |-> <<>>, traces |-> <<>>]
    /\ inv_results = <<>>
    /\ stats = <<0, 0>>

\* ContractRunner::new followed by a call of run_tests
Init ==
    /\ abi \in SUBSET FnIds
    /\ filter \in FilterNames
    /\ opts \in [include_fuzz_tests : BOOLEAN, invariant_depth : {SuiteDepth},
                 fuzz_runs : {FuzzRuns}, invariant_runs : {InvariantRuns},
                 invariant_call_override : {FALSE}]
    /\ libs \in {0, MaxLibs}
    /\ inv_breaks = [i \in {2, 3} |-> IF i = 2 THEN {1, 2} ELSE {1}]
    /\ pc = "start"
    /\ execs = [h \in {RunnerExec} |-> MkExec(FreshDb, FALSE)]
    /\ InitRest

(* ------------------------------ run_tests ------------------------------ *)
\* a TestResult
MkResult(success, reason, counterexample, logs, kind, traces) ==
    [success |-> success, reason |-> reason, counterexample |-> counterexample,
     logs |-> logs, kind |-> kind, traces |-> traces]

\* Option::None of a counterexample
NoCex == <<"None">>

\* placeholder where no TestResult exists
NoResult == MkResult(FALSE, "None", NoCex, <<>>, <<"None">>, <<>>)

\* the synthetic result for more than one setUp function
MultipleSetUpResult ==
    MkResult(FALSE, "Multiple setUp functions", NoCex, <<>>, <<"Standard", 0>>, <<>>)

\* SuiteResult::new(..) returned from run_tests
ReturnOk(results) ==
    /\ test_results' = results
    /\ ret' = "Ok"
    /\ pc' = "done"

\* run_tests up to the call of setup(): setup discovery, warnings, the
\* multiple-setUp short circuit, tracing for invariants
RunTestsBegin ==
    /\ pc = "start"
    /\ warnings' = SetupWarnings(abi)
    /\ IF TooManySetupFns(abi)
       THEN /\ ReturnOk([k \in {S_setUpSig} |-> MultipleSetUpResult])
            /\ UNCHANGED execs
       ELSE /\ pc' = "setup_fund"
            /\ execs' = IF HasInvariants(abi) /\ NeedsSetup(abi)
                        THEN [execs EXCEPT ![RunnerExec].tracing = TRUE]
                        ELSE execs
            /\ UNCHANGED <<test_results, ret>>
    /\ UNCHANGED <<inputVars, calls, setup, lib_idx, workers, tests, invVars>>

(* -------------------------------- setup -------------------------------- *)
RunnerDb == execs[RunnerExec].db

SetRunnerDb(db) == [execs EXCEPT ![RunnerExec].db = db]

\* traces are returned by the executor only while tracing is on
TraceOf(kind, what) == IF execs[RunnerExec].tracing THEN <<<<kind, what>>>> ELSE <<>>

\* outcome of a deployment or call: success, EvmError::Execution, another error
Outcomes == {"ok", "revert", "fault"}

\* a hard error leaves run_tests through `?` / bail!
ReturnErr ==
    /\ ret' = "Err"
    /\ pc' = "done"

\* DeployFailedSetup keeping the traces collected so far, the error's appended
DeployFailedKeepTraces(what) ==
    [address |-> "zero", logs |-> <<"log_revert">>,
     traces |-> setup.traces \o TraceOf("Setup", what),
     setup_failed |-> TRUE, reason |-> "constructor reverted"]

\* TestSetup returned when a constructor reverts: the error's traces (tagged
\* Setup) shadow the traces collected so far
DeployFailedSetup(what) ==
    [address |-> "zero", logs |-> <<"log_revert">>, traces |-> TraceOf("Setup", what),
     setup_failed |-> TRUE, reason |-> "constructor reverted"]

\* set_balance(sender, MAX); set_balance(CALLER, MAX); set_nonce(sender, 1)
SetupFund ==
    /\ pc = "setup_fund"
    /\ execs' = SetRunnerDb([RunnerDb EXCEPT !.sender_bal = "max", !.caller_bal = "max",
                                              !.sender_nonce = 1])
    /\ calls' = Count("set_balance")
    /\ pc' = IF libs > 0 THEN "deploy_lib" ELSE "deploy_contract"
    /\ UNCHANGED <<inputVars, setup, lib_idx, warnings, test_results, ret, workers,
                   tests, invVars>>

\* one iteration of the library loop
DeployLib ==
    /\ pc = "deploy_lib"
    /\ lib_idx < libs
    /\ \E o \in Outcomes :
       /\ calls' = CountOutcome("deploy", o)
       /\
        \/ /\ o = "ok"
           /\ execs' = SetRunnerDb(CommitDeploy(RunnerDb))
           /\ setup' = [setup EXCEPT !.traces = @ \o TraceOf("Deployment", "lib")]
           /\ lib_idx' = lib_idx + 1
           /\ pc' = IF lib_idx + 1 = libs THEN "deploy_contract" ELSE "deploy_lib"
           /\ UNCHANGED ret
        \/ /\ o = "revert"
           /\ setup' = DeployFailedSetup("lib")
           /\ pc' = "setup_done"
           /\ UNCHANGED <<execs, lib_idx, ret>>
        \/ /\ o = "fault"
           /\ ReturnErr
           /\ UNCHANGED <<execs, lib_idx, setup>>
    /\ UNCHANGED <<inputVars, warnings, test_results, workers, tests, invVars>>

\* deploy the test contract
DeployContract ==
    /\ pc = "deploy_contract"
    /\ \E o \in Outcomes :
       /\ calls' = CountOutcome("deploy", o)
       /\
        \/ /\ o = "ok"
           /\ execs' = SetRunnerDb(CommitDeploy(RunnerDb))
           /\ setup' = [setup EXCEPT !.address = "contract", !.logs = <<"log_deploy">>,
                                     !.traces = @ \o TraceOf("Deployment", "contract")]
           /\ pc' = "reset_balances"
           /\ UNCHANGED ret
        \/ /\ o = "revert"
           /\ setup' = DeployFailedSetup("contract")
           /\ pc' = "setup_done"
           /\ UNCHANGED <<execs, ret>>
        \/ /\ o = "fault"
           /\ ReturnErr
           /\ UNCHANGED <<execs, setup>>
    /\ UNCHANGED <<inputVars, lib_idx, warnings, test_results, workers, tests, invVars>>

\* InitialBalances resetting the contract's balance only
InitialBalancesContractOnly(db) == [db EXCEPT !.contract_bal = "init"]

\* the store after both balance resets
InitialBalances(db) == [db EXCEPT !.contract_bal = "init", !.sender_bal = "init"]

\* set_balance(address, initial_balance); set_balance(sender, initial_balance)
ResetBalances ==
    /\ pc = "reset_balances"
    /\ execs' = SetRunnerDb(InitialBalances(RunnerDb))
    /\ calls' = Count("set_balance")
    /\ pc' = "create2"
    /\ UNCHANGED <<inputVars, setup, lib_idx, warnings, test_results, ret, workers,
                   tests, invVars>>

\* deploy_create2_deployer()?: whatever error it returns leaves through `?`
DeployCreate2 ==
    /\ pc = "create2"
    /\ \E o \in Outcomes :
       /\ calls' = CountOutcome("create2", o)
       /\
        \/ /\ o = "ok"
           /\ pc' = "hook"
           /\ UNCHANGED ret
        \/ /\ o \in {"revert", "fault"}
           /\ ReturnErr
    /\ UNCHANGED <<inputVars, execs, setup, lib_idx, warnings, test_results, workers,
                   tests, invVars>>

\* HookRevertedSetup built the way a constructor revert is: zero address and
\* the error's logs and traces alone
HookRevertedZero(s) ==
    [address |-> "zero", logs |-> <<"log_hook">>, traces |-> TraceOf("Setup", "hook"),
     setup_failed |-> TRUE, reason |-> "Setup failed: revert"]

\* the TestSetup built when the hook returned EvmError::Execution: the hook's
\* logs and traces extend those of the deployment s
HookRevertedSetup(s) ==
    [s EXCEPT !.logs = @ \o <<"log_hook">>,
              !.traces = @ \o TraceOf("Setup", "hook"),
              !.setup_failed = TRUE,
              !.reason = "Setup failed: revert"]

\* optionally call setUp() and build the TestSetup
SetupHook ==
    /\ pc = "hook"
    /\ IF NeedsSetup(abi)
       THEN \E o \in Outcomes :
               /\ calls' = CountOutcome("hook", o)
               /\
                \/ /\ o = "ok"
                   /\ execs' = SetRunnerDb(CommitCall(RunnerDb, 1))
                   /\ setup' = [setup EXCEPT !.logs = @ \o <<"log_hook">>,
                                             !.traces = @ \o TraceOf("Setup", "hook")]
                \/ /\ o = "revert"
                   /\ setup' = HookRevertedSetup(setup)
                   /\ UNCHANGED execs
                \/ /\ o = "fault"
                   /\ setup' = [setup EXCEPT !.setup_failed = TRUE,
                                             !.reason = "Setup failed: fault"]
                   /\ UNCHANGED execs
       ELSE UNCHANGED <<calls, execs, setup>>
    /\ pc' = "setup_done"
    /\ UNCHANGED <<inputVars, lib_idx, warnings, test_results, ret, workers, tests, invVars>>

(* ----------------------- run_tests: unit and fuzz tests ---------------- *)
\* the synthetic result for a failed setup
SetupFailedResult ==
    MkResult(FALSE, setup.reason, NoCex, setup.logs, <<"Standard", 0>>, setup.traces)

\* SetupFailed looking at the contract address instead of the flag
SetupFailedNoContract(s) == s.address = "zero"

\* if setup.setup_failed
SetupFailed(s) == s.setup_failed

\* a parallel invocation that has not run yet
Spawned == [pc |-> "spawned", status |-> "none", mode |-> "none", reverted |-> FALSE,
            inputs |-> <<>>, result |-> NoResult]

\* run_tests after setup() returned: the setup-failure short circuit, test
\* collection and the start of the parallel iteration
AfterSetup ==
    /\ pc = "setup_done"
    /\ IF SetupFailed(setup)
       THEN /\ ReturnOk([k \in {S_setUpSig} |-> SetupFailedResult])
            /\ UNCHANGED <<tests, workers>>
       ELSE /\ tests' = CollectTests(abi, filter, opts.include_fuzz_tests)
            /\ workers' = [k \in DOMAIN tests' |-> Spawned]
            /\ pc' = IF tests' # <<>> THEN "tests" ELSE "after_tests"
            /\ UNCHANGED <<test_results, ret>>
    /\ UNCHANGED <<inputVars, execs, calls, setup, lib_idx, warnings, invVars>>

\* gas and stipend the executor reports for test function i in state db
TestGas(i, db) == db.store + 1
TestStipend(i) == i % 3

\* u64::overflowing_sub(..).0 at the model's word width
OverflowingSub(a, b) == (a - b) % (2 ^ U64Bits)

\* WorkerExecutor without the clone: every invocation on the runner's executor
SharedExecutor(k) == RunnerExec

\* the executor a unit test invocation runs on: self.clone() gives the k-th
\* invocation an executor of its own
WorkerExecutor(k) == k

IsUnit(k) == Pool[tests[k]].inputs = <<>>

\* the TestResult run_test builds from a call that returned Ok or
\* EvmError::Execution
UnitResult(i, e, s) ==
    LET reverted == TestReverts(i, e.db)
    IN  MkResult(IsSuccess(reverted, ShouldFail(i)),
                 IF reverted THEN "reverted" ELSE "None",
                 NoCex,
                 s.logs \o <<<<"log_test", i>>>>,
                 <<"Standard", OverflowingSub(TestGas(i, e.db), TestStipend(i))>>,
                 s.traces \o (IF e.tracing THEN <<<<"Execution", i>>>> ELSE <<>>))

\* self.clone(): the invocation gets a copy of the runner's executor
UnitClone(k) ==
    /\ pc = "tests"
    /\ workers[k].pc = "spawned"
    /\ IsUnit(k)
    /\ execs' = (WorkerExecutor(k) :> execs[RunnerExec]) @@ execs
    /\ workers' = [workers EXCEPT ![k].pc = "cloned"]
    /\ UNCHANGED <<inputVars, pc, calls, setup, lib_idx, warnings, test_results, ret,
                   tests, invVars>>

\* run_test: execute_test on the invocation's executor.  Whether the executor
\* keeps the call's state changes is left open: it is the callee's business.
UnitRun(k) ==
    /\ pc = "tests"
    /\ workers[k].pc = "cloned"
    /\ calls' = Count("test")
    /\ LET h == WorkerExecutor(k)
           e == execs[h]
       IN  \E o \in {"ok", "fault"}, committed \in BOOLEAN :
            /\ workers' = [workers EXCEPT ![k] =
                  [pc |-> "done",
                   status |-> IF o = "ok" THEN "Ok" ELSE "Err",
                   mode |-> "unit",
                   inputs |-> <<>>,
                   reverted |-> o = "ok" /\ TestReverts(tests[k], e.db),
                   result |-> IF o = "ok" THEN UnitResult(tests[k], e, setup) ELSE NoResult]]
            /\ execs' = [execs EXCEPT ![h].db =
                  IF o = "ok" /\ committed THEN CommitCall(e.db, 1) ELSE e.db]
    /\ UNCHANGED <<inputVars, pc, setup, lib_idx, warnings, test_results, ret, tests,
                   invVars>>

\* the inputs the generator may draw for a fuzz case
FuzzInputs == {0, 1}

\* whether the call of test function i with input x reverts in state db
FuzzReverts(i, db, x) == (db.store + i + x) % 2 = 1

RECURSIVE FuzzLoop(_, _, _, _, _)
\* FuzzedExecutor::fuzz: run the drawn inputs xs in order, none committing;
\* stop at the first case whose classification is a failure and record its
\* input; n counts the cases run before the current one
FuzzLoop(i, db, should_fail, xs, n) ==
    IF xs = <<>>
    THEN [success |-> TRUE, reason |-> "None", counterexample |-> NoCex, cases |-> n]
    ELSE IF IsSuccess(FuzzReverts(i, db, Head(xs)), should_fail)
    THEN FuzzLoop(i, db, should_fail, Tail(xs), n + 1)
    ELSE [success |-> FALSE, reason |-> "fuzz failure",
          counterexample |-> <<"Single", Head(xs)>>, cases |-> n + 1]

\* FuzzCases taking the budget of the invariant runs
FuzzCasesOfInvariant(o) == o.invariant_runs

\* proptest Config.cases of the unit/fuzz phase: test_options.fuzz_runs
FuzzCases(o) == o.fuzz_runs

\* run_fuzz_test: FuzzedExecutor borrows the runner's executor read-only
FuzzRun(k) ==
    /\ pc = "tests"
    /\ workers[k].pc = "spawned"
    /\ ~IsUnit(k)
    /\ calls' = Count("fuzz")
    /\ \E xs \in [1 .. FuzzCases(opts) -> FuzzInputs] :
        LET r == FuzzLoop(tests[k], RunnerDb, ShouldFail(tests[k]), xs, 0)
        IN  workers' = [workers EXCEPT ![k] =
              [pc |-> "done",
               status |-> "Ok",
               mode |-> "fuzz",
               reverted |-> FALSE,
               inputs |-> SubSeq(xs, 1, r.cases),
               result |-> MkResult(r.success, r.reason, r.counterexample,
                                   setup.logs \o <<<<"log_fuzz", tests[k]>>>>,
                                   <<"Fuzz", r.cases>>,
                                   setup.traces \o (IF execs[RunnerExec].tracing
                                                    THEN <<<<"Execution", tests[k]>>>>
                                                    ELSE <<>>))]]
    /\ UNCHANGED <<inputVars, pc, execs, setup, lib_idx, warnings, test_results, ret,
                   tests, invVars>>

\* par_iter().flat_map(|..| result.map(|r| Ok((sig, r)))): a Result used as an
\* iterator yields its Ok value and nothing for Err, so the invocations whose
\* run_test returned Err contribute no item
FlatMapped(ws) == {k \in DOMAIN ws : ws[k].status = "Ok"}

\* .collect::<Result<BTreeMap<_, _>>>() of the items left
CollectedTests(ws) ==
    LET ks == FlatMapped(ws)
    IN  [sig \in {Signature(Pool[tests[k]]) : k \in ks} |->
            ws[CHOOSE k \in ks : Signature(Pool[tests[k]]) = sig].result]

\* the parallel iteration ends: the results are collected and the clones dropped
CollectResults ==
    /\ pc = "tests"
    /\ \A k \in DOMAIN workers : workers[k].pc = "done"
    /\ test_results' = CollectedTests(workers)
    /\ execs' = [h \in {RunnerExec} |-> execs[RunnerExec]]
    /\ pc' = "after_tests"
    /\ UNCHANGED <<inputVars, calls, setup, lib_idx, warnings, ret, workers, tests,
                   invVars>>

\* run_tests after the unit/fuzz phase: enter the invariant phase or return
AfterTests ==
    /\ pc = "after_tests"
    /\ IF HasInvariants(abi) /\ opts.include_fuzz_tests
       THEN /\ functions' = InvariantFns(abi, filter)
            /\ pc' = "invariant"
            /\ UNCHANGED <<test_results, ret>>
       ELSE /\ ReturnOk(test_results)
            /\ UNCHANGED functions
    /\ UNCHANGED <<inputVars, execs, calls, setup, lib_idx, warnings, workers, tests,
                   prev_db, invariants, inv_idx, call_idx, cex, cur, inv_results, stats>>

(* --------------------------- run_invariant_test ------------------------ *)
\* call sequences of length at most d
SeqsUpTo(d) == UNION {[1 .. n -> Calls] : n \in 0 .. d}

RECURSIVE ApplyCalls(_, _)
\* the store after committing the calls of seq in order
ApplyCalls(db, seq) ==
    IF seq = <<>> THEN db ELSE ApplyCalls(CommitCall(db, Head(seq)), Tail(seq))

\* whether invariant function i reverts when called in state db
InvariantReverts(i, db) == db.store \in inv_breaks[i]

\* an entry of InvariantFuzzTestResult.invariants: no error, or an
\* InvariantFuzzError with test_error Abort or Fail(reason, calls); func is
\* whether error.func is Some
NoError == [kind |-> "None", seq |-> <<>>, func |-> FALSE]

FailureEntries(d) ==
    {NoError, [kind |-> "Abort", seq |-> <<>>, func |-> FALSE]}
    \cup [kind : {"Fail"}, seq : SeqsUpTo(d), func : BOOLEAN]

\* let prev_db = self.executor.backend().db.clone()
InvSnapshot ==
    /\ pc = "invariant"
    /\ prev_db' = RunnerDb
    /\ pc' = "explore"
    /\ UNCHANGED <<inputVars, execs, calls, setup, lib_idx, warnings, test_results, ret,
                   workers, tests, functions, invariants, inv_idx, call_idx, cex, cur,
                   inv_results, stats>>

\* evm.invariant_fuzz(..)?: the exploration commits a walk of calls on the
\* runner's executor and returns an error, None, or one entry per function
InvariantFuzz ==
    /\ pc = "explore"
    /\ calls' = Count("invariant_fuzz")
    /\ \E walk \in SeqsUpTo(opts.invariant_depth), o \in {"Err", "None", "Some"} :
        /\ execs' = [execs EXCEPT ![RunnerExec] =
                        [@ EXCEPT !.db = ApplyCalls(@, walk),
                                  !.generator = opts.invariant_call_override]]
        /\ \/ /\ o = "Err"
              /\ ReturnErr
              /\ UNCHANGED <<invariants, inv_idx, stats>>
           \/ /\ o = "None"
              /\ pc' = "inv_return"
              /\ UNCHANGED <<invariants, inv_idx, stats, ret>>
           \/ /\ o = "Some"
              /\ invariants' \in [DOMAIN functions -> FailureEntries(opts.invariant_depth)]
              /\ stats' = <<opts.invariant_runs, 0>>
              /\ inv_idx' = 1
              /\ pc' = IF functions = <<>> THEN "inv_cleanup" ELSE "inv_map"
              /\ UNCHANGED ret
    /\ UNCHANGED <<inputVars, setup, lib_idx, warnings, test_results, workers, tests,
                   functions, prev_db, call_idx, cex, cur, inv_results>>

\* InvariantResult judging success by the absence of a counterexample
InvariantResultByCex(entry, sequence, c) ==
    MkResult(sequence = <<>>,
             IF entry.kind = "None" THEN "None" ELSE "invariant broken",
             IF sequence = <<>> THEN NoCex ELSE <<"Sequence", sequence>>,
             c.logs,
             <<"Invariant", stats[1], stats[2]>>,
             c.traces)

\* the TestResult built at the end of the closure
InvariantResult(entry, sequence, c) ==
    MkResult(entry.kind = "None",
             IF entry.kind = "None" THEN "None" ELSE "invariant broken",
             IF sequence = <<>> THEN NoCex ELSE <<"Sequence", sequence>>,
             c.logs,
             <<"Invariant", stats[1], stats[2]>>,
             c.traces)

\* the closure returns: its result is collected and the iteration goes on
PushResult(entry, sequence, c) ==
    /\ inv_results' = Append(inv_results, InvariantResult(entry, sequence, c))
    /\ inv_idx' = inv_idx + 1
    /\ pc' = IF inv_idx = Len(invariants) THEN "inv_cleanup" ELSE "inv_map"

\* ResetDb without the reset: the replay starts from the store as it is
KeepDb(db, snapshot) == db

\* the backing store the replay of a failure starts from:
\* self.executor.backend_mut().db = prev_db.clone()
ResetDb(db, snapshot) == snapshot

\* SetReplay leaving the call generator as it is
SetReplayOff(e, seq) == e

\* if there is a fuzzer with a call generator: set_replay(true) and
\* last_sequence = the error's inner sequence
SetReplay(e, seq) ==
    IF e.generator THEN [e EXCEPT !.replay = TRUE, !.last_sequence = seq] ELSE e

\* StartDiagnostics going on with the logs and traces of the previous closure
CarriedDiagnostics(s, c) == c

\* let mut logs = logs.clone(); let mut traces = traces.clone(): every closure
\* starts from the setup's logs and traces, whatever the previous one (c) left
StartDiagnostics(s, c) == [logs |-> s.logs, traces |-> s.traces]

\* head of the closure for the next invariant: fresh counterexample, logs and
\* traces; for a Fail error the store is reset, tracing switched on and the
\* call generator, if any, put into replay mode
InvariantBegin ==
    /\ pc = "inv_map"
    /\ LET entry == invariants[inv_idx]
           c0 == StartDiagnostics(setup, cur)
       IN  IF entry.kind = "Fail"
           THEN /\ execs' = [execs EXCEPT ![RunnerExec] =
                        SetReplay([@ EXCEPT !.db = ResetDb(@, prev_db), !.tracing = TRUE],
                                  entry.seq)]
                /\ IF entry.seq = <<>>
                   THEN /\ PushResult(entry, <<>>, c0)
                        /\ UNCHANGED <<cex, cur, call_idx>>
                   ELSE /\ cex' = <<>>
                        /\ cur' = c0
                        /\ call_idx' = 0
                        /\ pc' = "replay_call"
                        /\ UNCHANGED <<inv_results, inv_idx>>
           ELSE /\ PushResult(entry, <<>>, c0)
                /\ UNCHANGED <<execs, cex, cur, call_idx>>
    /\ UNCHANGED <<inputVars, calls, setup, lib_idx, warnings, test_results, ret, workers,
                   tests, functions, prev_db, invariants, stats>>

\* .expect("bad call to evm") on an Err: the thread panics
Panic(what) ==
    /\ ret' = what
    /\ pc' = "done"

\* one iteration of the replay loop up to the invariant call:
\* call_raw_committing of the next captured call, its logs and trace, the
\* counterexample entry
ReplayCall ==
    /\ pc = "replay_call"
    /\ calls' = Count("replay")
    /\ LET entry == invariants[inv_idx]
           c == entry.seq[call_idx + 1]
           sequence == Append(cex, c)
           c1 == [logs |-> cur.logs \o <<<<"log_call", c>>>>,
                  traces |-> cur.traces \o <<<<"Execution", c>>>>]
       IN  \E o \in {"ok", "fault"} :
            \/ /\ o = "fault"
               /\ Panic("panic: replayed call")
               /\ UNCHANGED <<execs, cex, cur, call_idx, inv_results, inv_idx>>
            \/ /\ o = "ok"
               /\ execs' = SetRunnerDb(CommitCall(RunnerDb, c))
               /\ call_idx' = call_idx + 1
               /\ cex' = sequence
               /\ cur' = c1
               /\ UNCHANGED ret
               /\ IF entry.func
                  THEN /\ pc' = "replay_check"
                       /\ UNCHANGED <<inv_results, inv_idx>>
                  ELSE IF call_idx + 1 = Len(entry.seq)
                  THEN PushResult(entry, sequence, c1)
                  ELSE /\ pc' = "replay_call"
                       /\ UNCHANGED <<inv_results, inv_idx>>
    /\ UNCHANGED <<inputVars, setup, lib_idx, warnings, test_results, workers, tests,
                   functions, prev_db, invariants, stats>>

\* BreakOnRevert without the break: the whole sequence is replayed
NeverBreak(reverted) == FALSE

\* BreakOnRevert with the test inverted
BreakOnSuccess(reverted) == ~reverted

\* whether the replay loop stops after the invariant call
BreakOnRevert(reverted) == reverted

\* the rest of the iteration when error.func is known: call_raw of the
\* invariant function (not committing), break if it reverted
ReplayCheck ==
    /\ pc = "replay_check"
    /\ LET entry == invariants[inv_idx]
           reverted == InvariantReverts(functions[inv_idx], RunnerDb)
           c1 == [logs |-> cur.logs \o <<<<"log_invariant", functions[inv_idx]>>>>,
                  traces |-> cur.traces \o <<<<"Execution", "invariant">>>>]
       IN  \E o \in {"ok", "fault"} :
            \/ /\ o = "fault"
               /\ Panic("panic: invariant call")
               /\ UNCHANGED <<cur, inv_results, inv_idx>>
            \/ /\ o = "ok"
               /\ UNCHANGED ret
               /\ IF BreakOnRevert(reverted)
                  THEN /\ cur' = c1
                       /\ PushResult(entry, cex, c1)
                  ELSE /\ UNCHANGED cur
                       /\ IF call_idx = Len(entry.seq)
                          THEN PushResult(entry, cex, cur)
                          ELSE /\ pc' = "replay_call"
                               /\ UNCHANGED <<inv_results, inv_idx>>
    /\ UNCHANGED <<inputVars, execs, calls, setup, lib_idx, warnings, test_results,
                   workers, tests, functions, prev_db, invariants, call_idx, cex, stats>>

\* final clean-up: self.executor.backend_mut().db = prev_db; Ok(results)
InvCleanup ==
    /\ pc = "inv_cleanup"
    /\ execs' = SetRunnerDb(prev_db)
    /\ pc' = "inv_return"
    /\ UNCHANGED <<inputVars, calls, setup, lib_idx, warnings, test_results, ret, workers,
                   tests, invVars>>

RECURSIVE ZipInsert(_, _, _)
\* results.into_iter().zip(functions.iter()): insert each result under its
\* function's name, a later insert replacing an earlier one with the same key
ZipInsert(m, rs, fs) ==
    IF rs = <<>> \/ fs = <<>> THEN m
    ELSE ZipInsert((Pool[Head(fs)].name :> Head(rs)) @@ m, Tail(rs), Tail(fs))

\* run_tests after run_invariant_test returned Ok(results)
MergeInvariants ==
    /\ pc = "inv_return"
    /\ ReturnOk(ZipInsert(test_results, inv_results, functions))
    /\ UNCHANGED <<inputVars, execs, calls, setup, lib_idx, warnings, workers, tests,
                   invVars>>

(* ---------------------------- specifications --------------------------- *)
Next ==
    \/ RunTestsBegin
    \/ SetupFund
    \/ DeployLib
    \/ DeployContract
    \/ ResetBalances
    \/ DeployCreate2
    \/ SetupHook
    \/ AfterSetup
    \/ \E k \in DOMAIN workers : UnitClone(k)
    \/ \E k \in DOMAIN workers : UnitRun(k)
    \/ \E k \in DOMAIN workers : FuzzRun(k)
    \/ CollectResults
    \/ AfterTests
    \/ InvSnapshot
    \/ InvariantFuzz
    \/ InvariantBegin
    \/ ReplayCall
    \/ ReplayCheck
    \/ InvCleanup
    \/ MergeInvariants

Spec == Init /\ [][Next]_vars

\* a TestSetup as setup() returns it after a successful deployment and hook
DeployedSetup ==
    [address |-> "contract", logs |-> <<"log_deploy", "log_hook">>, traces |-> <<>>,
     setup_failed |-> FALSE, reason |-> "None"]

\* ContractRunner::new, a successful setup, then a call of the public
\* run_invariant_test with one or two invariant functions, any store and any
\* of the contract behaviours
InitInv ==
    /\ abi \in (SUBSET {2, 3}) \ {{}}
    /\ filter = "all"
    /\ opts \in [include_fuzz_tests : {TRUE}, invariant_depth : {MaxDepth},
                 fuzz_runs : {FuzzRuns}, invariant_runs : {InvariantRuns},
                 invariant_call_override : BOOLEAN]
    /\ libs = 0
    /\ inv_breaks \in Behaviours
    /\ pc = "invariant"
    /\ \E st \in Stores :
        execs = [h \in {RunnerExec} |->
                    MkExec([store |-> st, sender_bal |-> "init", caller_bal |-> "max",
                            contract_bal |-> "init", sender_nonce |-> 1], FALSE)]
    /\ calls = NoCalls
    /\ setup = DeployedSetup
    /\ lib_idx = 0
    /\ warnings = <<>>
    /\ test_results = <<>>
    /\ ret = "running"
    /\ workers = <<>>
    /\ tests = <<>>
    /\ functions = Functions(abi)
    /\ prev_db = FreshDb
    /\ invariants = <<>>
    /\ inv_idx = 0
    /\ call_idx = 0
    /\ cex = <<>>
    /\ cur = [logs |-> <<>>, traces |-> <<>>]
    /\ inv_results = <<>>
    /\ stats = <<0, 0>>

NextInv ==
    \/ InvSnapshot
    \/ InvariantFuzz
    \/ InvariantBegin
    \/ ReplayCall
    \/ ReplayCheck
    \/ InvCleanup

SpecInv == InitInv /\ [][NextInv]_vars

(* ================================ claims =============================== *)
\* the ABI functions that are unit/fuzz candidates: name starts with "test"
\* and the signature passes the filter
MatchedTests ==
    {i \in abi : StartsWith(Pool[i].name, S_test) /\ MatchesTest(filter, Signature(Pool[i]))}

\* the ABI functions that are invariant candidates
MatchedInvariants ==
    {i \in abi : StartsWith(Pool[i].name, S_invariant)
                 /\ MatchesTest(filter, Signature(Pool[i]))}

\* the keys under which a result of function i may be stored
KeysOf(i) == {Signature(Pool[i]), Pool[i].name}

\* the pool functions named "setup" case-insensitively, those among them
\* named exactly "setUp", and the pool functions whose name starts with
\* "invariant"
SetupNamedIds == {i \in FnIds : ToLowercase(Pool[i].name) = S_setup}
CanonicalIds == {i \in FnIds : Pool[i].name = S_setUp}
InvariantIds == {i \in FnIds : StartsWith(Pool[i].name, S_invariant)}

\* the number of ABI functions named "setup" case-insensitively
NumSetupNamed == Cardinality(abi \cap SetupNamedIds)

\* run_tests returned Ok after a setup that did not fail
ReturnedAfterSetup ==
    /\ ret = "Ok"
    /\ pc = "done"
    /\ NumSetupNamed <= 1
    /\ ~setup.setup_failed

\* C1: when run_tests returns Ok after a successful setup, test_results holds
\* exactly one entry for every matched test or invariant function and no
\* other entry (an empty map when nothing is matched).
C1_OneResultPerMatched ==
    ReturnedAfterSetup =>
        /\ \A i \in MatchedTests \cup MatchedInvariants :
              Cardinality(KeysOf(i) \cap DOMAIN test_results) = 1
        /\ DOMAIN test_results \subseteq
              UNION {KeysOf(i) : i \in MatchedTests \cup MatchedInvariants}

\* the store setup leaves behind when every deployment and the hook succeeded
PostSetupDb ==
    [store |-> (calls.deploy + calls.hook) % DbSize, sender_bal |-> "init",
     caller_bal |-> "max", contract_bal |-> "init", sender_nonce |-> 1]

\* the executor as setup() left it
PostSetupExec == MkExec(PostSetupDb, abi \cap InvariantIds # {} /\ NumSetupNamed = 1
                                      /\ abi \cap CanonicalIds # {})

UnitDone(k) == workers[k].pc = "done" /\ workers[k].status = "Ok" /\ IsUnit(k)

\* C2: the TestResult of a unit test (success, reason, logs, traces, gas) is
\* the one determined by the post-setup state alone, whatever the other
\* invocations have done, in whatever order, before or while it ran.
C2_UnitIsolation ==
    LET e == PostSetupExec
    IN  \A k \in DOMAIN workers :
            UnitDone(k) => workers[k].result = UnitResult(tests[k], e, setup)

\* two unit tests have finished and one of them left changed state behind in
\* the executor it ran on
C2_Witness ==
    /\ pc = "tests"
    /\ \E k1, k2 \in DOMAIN workers :
        /\ k1 # k2
        /\ UnitDone(k1)
        /\ UnitDone(k2)
        /\ \E h \in DOMAIN execs : h # RunnerExec /\ execs[h].db # RunnerDb

\* C9: when the execution of a unit test returned a non-execution error,
\* run_tests does not return Ok (it returns the error).
C9_HardErrorAborts ==
    (\E k \in DOMAIN workers : workers[k].status = "Err") => ret # "Ok"

\* C10: with more than one function named "setup" case-insensitively no
\* executor operation is ever made, and run_tests returns Ok with the single
\* failing entry "setUp()" whose reason is "Multiple setUp functions".
C10_MultipleSetUp ==
    NumSetupNamed > 1 =>
        /\ calls = NoCalls
        /\ pc \in {"start", "done"}
        /\ pc = "done" =>
            /\ ret = "Ok"
            /\ DOMAIN test_results = {S_setUpSig}
            /\ test_results[S_setUpSig].success = FALSE
            /\ test_results[S_setUpSig].reason = "Multiple setUp functions"

\* run_tests has returned for an ABI with both setUp and setup
C10_Witness ==
    /\ NumSetupNamed > 1
    /\ pc = "done"
    /\ HasInvariants(abi)
    /\ MatchedTests # {}

\* run_invariant_test has returned: Ok(results), Ok(vec![]) or the error of
\* invariant_fuzz
InvReturned ==
    \/ pc = "inv_return"
    \/ pc = "done" /\ ret = "Err" /\ calls.invariant_fuzz > 0

\* C3: on every return of run_invariant_test the backing store equals the
\* snapshot taken before the exploration.
C3_StoreRestored == InvReturned => RunnerDb = prev_db

\* the store after replaying the first n calls of seq from the snapshot
AfterPrefix(seq, n) == ApplyCalls(prev_db, SubSeq(seq, 1, n))

\* the steps of seq after which invariant function f reverts
BreakSteps(f, seq) == {n \in 1 .. Len(seq) : InvariantReverts(f, AfterPrefix(seq, n))}

\* the closure has just returned the result of invariant j: nothing has
\* touched the executor since the last replayed call
JustPushed(j) == j = Len(inv_results) /\ j >= 1 /\ pc \in {"inv_map", "inv_cleanup"}

HasCex(r) == r.counterexample # NoCex

CexSeq(r) == r.counterexample[2]

\* C4 as stated: every failed invariant with a replayed counterexample has a
\* counterexample no longer than the captured sequence, and its invariant
\* function reverts when called right after the last replayed call.
C4_Original ==
    \A j \in DOMAIN inv_results :
        (JustPushed(j) /\ ~inv_results[j].success /\ HasCex(inv_results[j])) =>
            /\ Len(CexSeq(inv_results[j])) <= Len(invariants[j].seq)
            /\ InvariantReverts(functions[j], RunnerDb)

\* C4 amended: the counterexample is never longer than the captured sequence;
\* when the invariant function is known and reverts after some prefix of the
\* captured sequence replayed from the snapshot, it reverts right after the
\* last replayed call; otherwise the counterexample is the whole captured
\* sequence.
C4_Minimality ==
    \A j \in DOMAIN inv_results :
        (JustPushed(j) /\ ~inv_results[j].success /\ HasCex(inv_results[j])) =>
            /\ Len(CexSeq(inv_results[j])) <= Len(invariants[j].seq)
            /\ IF invariants[j].func /\ BreakSteps(functions[j], invariants[j].seq) # {}
               THEN InvariantReverts(functions[j], RunnerDb)
               ELSE CexSeq(inv_results[j]) = invariants[j].seq

\* a replay stopped before the end of the captured sequence, after at least
\* two calls
C4_Witness ==
    \E j \in DOMAIN inv_results :
        /\ JustPushed(j)
        /\ HasCex(inv_results[j])
        /\ Len(CexSeq(inv_results[j])) = 2
        /\ Len(invariants[j].seq) = 3
        /\ InvariantReverts(functions[j], RunnerDb)

\* C5: when the function of the broken invariant is known and reverts after
\* some prefix, the counterexample is exactly the first k captured calls, k
\* being the least step after which the invariant call reverts when the calls
\* are committed from the snapshot, and the result is a failure.
C5_ShortestPrefix ==
    \A j \in DOMAIN inv_results :
        LET e == invariants[j]
            K == BreakSteps(functions[j], e.seq)
        IN  (e.kind = "Fail" /\ e.func /\ K # {}) =>
                /\ HasCex(inv_results[j])
                /\ \E k \in K :
                    /\ \A n \in K : k <= n
                    /\ CexSeq(inv_results[j]) = SubSeq(e.seq, 1, k)
                /\ ~inv_results[j].success

\* the replay of the second invariant stopped at step 2 of 3, the first step
\* after which its function reverts
C5_Witness ==
    \E j \in DOMAIN inv_results :
        /\ j = 2
        /\ invariants[j].kind = "Fail"
        /\ invariants[j].func
        /\ Len(invariants[j].seq) = 3
        /\ 1 \notin BreakSteps(functions[j], invariants[j].seq)
        /\ 2 \in BreakSteps(functions[j], invariants[j].seq)
        /\ HasCex(inv_results[j])
        /\ Len(CexSeq(inv_results[j])) = 2

\* C6: when the first replayed call of a failed invariant is about to
\* execute, the backing store equals the pre-exploration snapshot.
C6_ReplayFromSnapshot ==
    (pc = "replay_call" /\ call_idx = 0) => RunnerDb = prev_db

\* the second invariant starts its replay after the exploration and the
\* replay of the first one both left the store changed
C6_Witness ==
    /\ pc = "replay_call"
    /\ call_idx = 0
    /\ inv_idx = 2
    /\ HasCex(inv_results[1])
    /\ ApplyCalls(prev_db, CexSeq(inv_results[1])) # prev_db

\* the step at which a replay ended: the calls replayed, and the traces
\* recorded (one more when the invariant call reverted)
StopStep(r) == <<r.counterexample, Len(r.traces)>>

\* C7: two replays of the same captured sequence for invariant functions of
\* the same behaviour end at the same step with the same counterexample.
C7_ReplayDeterminism ==
    \A i, j \in DOMAIN inv_results :
        (/\ invariants[i] = invariants[j]
         /\ invariants[i].kind = "Fail"
         /\ inv_breaks[functions[i]] = inv_breaks[functions[j]]) =>
            StopStep(inv_results[i]) = StopStep(inv_results[j])

\* both invariants failed on the same captured sequence and both replays
\* stopped at the first call, which changes the store
C7_Witness ==
    /\ Len(inv_results) = 2
    /\ invariants[1] = invariants[2]
    /\ invariants[1].kind = "Fail"
    /\ invariants[1].func
    /\ inv_breaks[functions[1]] = inv_breaks[functions[2]]
    /\ HasCex(inv_results[1])
    /\ Len(CexSeq(inv_results[1])) < Len(invariants[1].seq)
    /\ ApplyCalls(prev_db, CexSeq(inv_results[1])) # prev_db

\* C8: when a replayed call cannot be executed the run is not aborted:
\* run_invariant_test does not end in the panic of that call.
C8_BestEffortReplay == ret # "panic: replayed call"

(* ------------------------- setup discovery claims ---------------------- *)
\* the ABI functions named "setup" case-insensitively but not exactly "setUp"
MisCased == abi \cap (SetupNamedIds \ CanonicalIds)

\* the ABI functions named exactly "setUp"
Canonical == abi \cap CanonicalIds

\* two setup-named functions, exactly one of them named "setUp"
TwoSetupsOneCanonical == NumSetupNamed = 2 /\ Cardinality(Canonical) = 1

\* run_tests returned a SuiteResult
ReturnedOk == pc = "done" /\ ret = "Ok"

OnlyMisCased == Cardinality(MisCased) = 1 /\ Canonical = {}

\* the matched tests that discovery collects
Collected == {i \in MatchedTests : Pool[i].inputs = <<>> \/ opts.include_fuzz_tests}

\* test function i was executed by one of the parallel invocations
Executed(i) == \E k \in DOMAIN workers : tests[k] = i /\ workers[k].pc = "done"

\* every result an execution of test function i returned is in test_results
\* under the function's signature
Reported(i) ==
    \A k \in DOMAIN workers :
        (tests[k] = i /\ workers[k].status = "Ok") =>
            /\ Signature(Pool[i]) \in DOMAIN test_results
            /\ test_results[Signature(Pool[i])] = workers[k].result

C13_SetupFailureShortCircuit ==
    setup.setup_failed =>
        /\ calls.test = 0
        /\ calls.fuzz = 0
        /\ calls.invariant_fuzz = 0
        /\ pc \in {"setup_done", "done"}
        /\ pc = "done" =>
            /\ ret = "Ok"
            /\ DOMAIN test_results = {S_setUpSig}
            /\ test_results[S_setUpSig].success = FALSE
            /\ test_results[S_setUpSig].reason = setup.reason
            /\ test_results[S_setUpSig].logs = setup.logs
            /\ test_results[S_setUpSig].traces = setup.traces
            /\ test_results[S_setUpSig].counterexample = NoCex

\* run_tests has returned after a reverted setup hook, with traces, for an ABI
\* with matched tests and invariants and fuzzing enabled
C13_Witness ==
    /\ ReturnedOk
    /\ setup.setup_failed
    /\ setup.reason = "Setup failed: revert"
    /\ setup.traces # <<>>
    /\ MatchedTests # {}
    /\ MatchedInvariants # {}
    /\ opts.include_fuzz_tests

(* ------------------------ unit and fuzz test claims -------------------- *)
\* C14: when run_tests returns Ok after a successful setup, every matched
\* test function has been executed: by the fuzz executor when it has inputs
\* and include_fuzz_tests is true, and as a unit test otherwise.
C14_DiscoveryRule ==
    ReturnedAfterSetup =>
        \A i \in MatchedTests :
            \E k \in DOMAIN workers :
                /\ tests[k] = i
                /\ workers[k].pc = "done"
                /\ workers[k].mode = IF Pool[i].inputs # <<>> /\ opts.include_fuzz_tests
                                     THEN "fuzz" ELSE "unit"

SaturatingSub(a, b) == IF a >= b THEN a - b ELSE 0

\* C16: the gas a unit test reports is max(gas_used - stipend, 0): it is 0
\* when the stipend exceeds the gas used.
C16_GasSaturates ==
    \A k \in DOMAIN workers :
        UnitDone(k) =>
            workers[k].result.kind =
                <<"Standard", SaturatingSub(TestGas(tests[k], PostSetupDb),
                                            TestStipend(tests[k]))>>

(* ------------------------------ setup claims --------------------------- *)
\* C17: whenever an executor operation of setup returned a non-execution
\* error, run_tests ends in that hard error; whenever one reverted, setup
\* returned Ok with a TestSetup whose setup_failed is set.
C17_HardErrors ==
    /\ calls.setup_fault > 0 => (pc = "done" /\ ret = "Err")
    /\ calls.setup_revert > 0 => (ret # "Err" /\ setup.setup_failed)

\* a library or contract constructor reverted: an operation of setup reverted,
\* and it was neither the hook nor the deterministic deployer (whose error
\* ends run_tests)
ConstructorReverted == calls.setup_revert > 0 /\ calls.hook = 0 /\ ret # "Err"

\* C18: the test contract is deployed only after every library; once a
\* library or contract constructor has reverted setup has returned a TestSetup
\* with setup_failed, the zero address, the revert reason and traces all
\* tagged Setup, and the reverting deployment was the last operation: no later
\* library, test contract, deterministic deployer or hook.
C18_DeploymentShortCircuit ==
    /\ pc \in {"deploy_contract", "reset_balances", "create2", "hook"} => lib_idx = libs
    /\ ConstructorReverted =>
        /\ pc \in {"setup_done", "done"}
        /\ setup.setup_failed
        /\ setup.address = "zero"
        /\ setup.reason = "constructor reverted"
        /\ \A t \in DOMAIN setup.traces : setup.traces[t][1] = "Setup"
        /\ calls.setup_revert = 1
        /\ calls.deploy = lib_idx + 1
        /\ calls.create2 = 0

\* the second of two libraries reverted after the first was deployed with a
\* trace
C18_Witness ==
    /\ ConstructorReverted
    /\ libs = 2
    /\ lib_idx = 1
    /\ setup.traces # <<>>
    /\ pc = "done"

\* run_setup_hook as run_tests passes it
RunSetupHook == NumSetupNamed = 1 /\ Canonical # {}

\* the traces of the successful deployments followed by the hook's
DeploymentThenHookTraces ==
    IF execs[RunnerExec].tracing
    THEN [n \in 1 .. libs |-> <<"Deployment", "lib">>]
         \o <<<<"Deployment", "contract">>, <<"Setup", "hook">>>>
    ELSE <<>>

FuzzDone(k) == workers[k].pc = "done" /\ workers[k].mode = "fuzz"

\* the classification of fuzz case x of test function i is a failure
CaseFails(i, x) == FuzzReverts(i, PostSetupDb, x) # StartsWith(Pool[i].name, S_testFail)

AllTestsCompleted == \A k \in DOMAIN workers : workers[k].pc = "done"

\* C21: the invariant executor is run at most once and only after every unit
\* and fuzz test has completed; when run_tests returns Ok after a successful
\* setup it has been run (once) iff the ABI holds an invariant candidate: a
\* function whose name starts with "invariant" and which passes the filter.
C21_InvariantScheduling ==
    /\ calls.invariant_fuzz <= 1
    /\ (pc \in {"invariant", "explore"} \/ calls.invariant_fuzz > 0) => AllTestsCompleted
    /\ ReturnedAfterSetup => (calls.invariant_fuzz = 1 <=> MatchedInvariants # {})

\* C22: from the end of setup until the exploration of the invariant phase
\* begins, snapshot included, the runner's own executor is the one setup left,
\* however many unit and fuzz tests ran and whatever they did to the executors
\* they ran on.
C22_RunnerExecutorUnchanged ==
    /\ pc \in {"tests", "after_tests", "invariant", "explore"} =>
          execs[RunnerExec] = PostSetupExec
    /\ pc = "explore" => prev_db = PostSetupDb

\* the snapshot has been taken after two unit tests and a fuzz test ran on a
\* setup that changed the store
C22_Witness ==
    /\ pc = "explore"
    /\ calls.test >= 2
    /\ calls.fuzz >= 1
    /\ prev_db.store # FreshDb.store

\* a replay is in progress
Replaying == pc \in {"replay_call", "replay_check"}

\* while a failure is replayed: the store was reset and the captured calls
\* replayed so far were committed in captured order and nothing else changed
\* the store; tracing is on; the call generator, if the executor has one, is in
\* replay mode with the failure's sequence; the invariant function is called
\* only when it is known, after a replayed call
ReplayState ==
    Replaying =>
        /\ invariants[inv_idx].kind = "Fail"
        /\ execs[RunnerExec].tracing
        /\ execs[RunnerExec].generator =>
              /\ execs[RunnerExec].replay
              /\ execs[RunnerExec].last_sequence = invariants[inv_idx].seq
        /\ cex = SubSeq(invariants[inv_idx].seq, 1, call_idx)
        /\ RunnerDb = AfterPrefix(invariants[inv_idx].seq, call_idx)
        /\ pc = "replay_check" => (invariants[inv_idx].func /\ call_idx >= 1)

\* a step of the replay: calls are replayed one at a time, each committing the
\* next captured call and followed, when the invariant function is known, by
\* the invariant call, which leaves the store alone
ReplayStep ==
    /\ calls'.replay # calls.replay =>
          (pc = "replay_call" /\ calls'.replay = calls.replay + 1)
    /\ (pc = "replay_call" /\ ret' = ret /\ vars' # vars) =>
          /\ call_idx' = call_idx + 1
          /\ execs'[RunnerExec].db =
                CommitCall(RunnerDb, invariants[inv_idx].seq[call_idx + 1])
          /\ invariants[inv_idx].func => pc' = "replay_check"
    /\ (pc = "replay_check" /\ ret' = ret /\ vars' # vars) =>
          /\ execs' = execs
          /\ call_idx' = call_idx
          /\ pc' # "replay_check"

\* C23: no captured call is replayed before the store is reset, tracing is on
\* and the call generator (when the executor has one) is in replay mode with
\* the failure's sequence; the captured calls are then committed one at a time
\* in captured order, each followed, when the invariant function is known, by
\* one invariant call that does not change the store the next call sees.
C23_ReplayOrdering == []ReplayState /\ [][ReplayStep]_vars

\* the second captured call of the second failed invariant is about to be
\* replayed after its invariant function was called, on an executor with a
\* call generator
C23_Witness ==
    /\ pc = "replay_call"
    /\ inv_idx = 2
    /\ call_idx = 1
    /\ invariants[inv_idx].func
    /\ execs[RunnerExec].generator
    /\ RunnerDb # prev_db

RECURSIVE ReplayedCalls(_)
\* the number of calls the counterexamples of the results rs hold
ReplayedCalls(rs) ==
    IF rs = <<>> THEN 0
    ELSE (IF HasCex(Head(rs)) THEN Len(CexSeq(Head(rs))) ELSE 0) + ReplayedCalls(Tail(rs))

\* C24: when run_invariant_test returns Ok there is one result per invariant
\* the exploration reported; a result is successful iff no failure was
\* recorded for its invariant, and then it has no counterexample; a result has
\* a counterexample exactly when calls were replayed for it (a Fail error with
\* captured calls), and it is a prefix of the captured calls; the calls
\* replayed in all are exactly those in the counterexamples, so none for a
\* successful result; every result carries the campaign's Invariant(cases,
\* reverts).
C24_ResultConstruction ==
    pc = "inv_return" =>
        /\ Len(inv_results) = Len(invariants)
        /\ calls.replay = ReplayedCalls(inv_results)
        /\ \A j \in DOMAIN inv_results :
            LET r == inv_results[j]
                e == invariants[j]
            IN  /\ r.success = (e.kind = "None")
                /\ r.success => r.counterexample = NoCex
                /\ HasCex(r) = (e.kind = "Fail" /\ e.seq # <<>>)
                /\ HasCex(r) =>
                      /\ Len(CexSeq(r)) \in 1 .. Len(e.seq)
                      /\ CexSeq(r) = SubSeq(e.seq, 1, Len(CexSeq(r)))
                /\ r.kind = <<"Invariant", stats[1], stats[2]>>
                /\ r.kind[2] = opts.invariant_runs

\* run_invariant_test returned a successful result, without replay, next to a
\* failed one whose counterexample holds the two calls replayed
C24_Witness ==
    /\ pc = "inv_return"
    /\ Len(inv_results) = 2
    /\ calls.replay = 2
    /\ \E i, j \in DOMAIN inv_results :
        /\ inv_results[i].success
        /\ ~inv_results[j].success
        /\ HasCex(inv_results[j])
        /\ Len(CexSeq(inv_results[j])) = 2

\* C25 as stated: every key of the returned test_results is the full
\* signature, name and parameter list, of a function of the contract (or
\* "setUp()" for the result of a short circuit), for unit, fuzz and invariant
\* tests alike.
C25_KeysAreSignatures ==
    ReturnedOk =>
        \A key \in DOMAIN test_results :
            \/ key = S_setUpSig
            \/ \E i \in abi : key = Signature(Pool[i])

\* the sender and CALLER hold the maximum balance and the sender's nonce is 1
Funded(db) == db.sender_bal = "max" /\ db.caller_bal = "max" /\ db.sender_nonce = 1

\* C26: the sender and CALLER are funded and the sender's nonce is 1 before
\* the first deployment and stay so until the test contract is deployed; from
\* the balance reset on, so before the deterministic deployer is installed and
\* before the hook is invoked, the contract and the sender hold
\* initial_balance; when a constructor reverted neither reset has happened.
C26_BalanceResetOrdering ==
    /\ pc \in {"deploy_lib", "deploy_contract", "reset_balances"} =>
          /\ Funded(RunnerDb)
          /\ calls.set_balance = 1
    /\ pc = "setup_fund" => calls.deploy = 0
    /\ (pc \in {"create2", "hook"} \/ calls.create2 > 0 \/ calls.hook > 0) =>
          /\ RunnerDb.contract_bal = "init"
          /\ RunnerDb.sender_bal = "init"
          /\ RunnerDb.caller_bal = "max"
          /\ RunnerDb.sender_nonce = 1
          /\ calls.set_balance = 2
    /\ ConstructorReverted =>
          /\ Funded(RunnerDb)
          /\ RunnerDb.contract_bal = "none"
          /\ calls.set_balance = 1
          /\ calls.create2 = 0

\* two libraries and the test contract are deployed, the balances reset and
\* the deterministic deployer installed: the hook is next
C26_Witness ==
    /\ pc = "hook"
    /\ calls.deploy = MaxLibs + 1
    /\ calls.create2 = 1
    /\ RunnerDb.sender_bal = "init"
    /\ RunnerDb.contract_bal = "init"

\* the logs and the traces the replay of the first n calls of seq produces
OwnCallLogs(seq, n) == [k \in 1 .. n |-> <<"log_call", seq[k]>>]

OwnCallTraces(seq, n) == [k \in 1 .. n |-> <<"Execution", seq[k]>>]

\* C27: in the results run_tests returns, the logs and traces of every unit
\* and fuzz result are the TestSetup's followed by that test's own execution
\* log and trace only, and those of every invariant result are the TestSetup's
\* followed by the logs and traces of the calls replayed for that invariant
\* (and of its reverting invariant call) only: with several failed
\* invariants nothing of one replay shows in the logs, traces or
\* counterexample of another; the synthetic result of a short circuit carries
\* the TestSetup's logs and traces as they are.
C27_DiagnosticsFromSetup ==
    ReturnedOk =>
        /\ S_setUpSig \in DOMAIN test_results =>
              /\ test_results[S_setUpSig].logs = setup.logs
              /\ test_results[S_setUpSig].traces = setup.traces
        /\ \A k \in DOMAIN workers :
              workers[k].status = "Ok" =>
                LET r == workers[k].result
                    own == <<IF workers[k].mode = "unit" THEN "log_test" ELSE "log_fuzz",
                             tests[k]>>
                IN  /\ r.logs = setup.logs \o <<own>>
                    /\ r.traces \in {setup.traces,
                                      setup.traces \o <<<<"Execution", tests[k]>>>>}
        /\ \A j \in DOMAIN inv_results :
              LET r == inv_results[j]
                  e == invariants[j]
                  n == IF HasCex(r) THEN Len(CexSeq(r)) ELSE 0
                  broke == /\ e.func
                           /\ n >= 1
                           /\ InvariantReverts(functions[j], AfterPrefix(e.seq, n))
              IN  /\ n <= Len(e.seq)
                  /\ HasCex(r) => CexSeq(r) = SubSeq(e.seq, 1, n)
                  /\ r.logs = setup.logs \o OwnCallLogs(e.seq, n)
                                 \o (IF broke THEN <<<<"log_invariant", functions[j]>>>>
                                      ELSE <<>>)
                  /\ r.traces = setup.traces \o OwnCallTraces(e.seq, n)
                                 \o (IF broke THEN <<<<"Execution", "invariant">>>>
                                      ELSE <<>>)

\* run_tests returned the results of a unit test and of two failed invariants,
\* each with replayed calls of its own
C27_Witness ==
    /\ ReturnedOk
    /\ \E k \in DOMAIN workers : workers[k].status = "Ok" /\ workers[k].mode = "unit"
    /\ Len(inv_results) = 2
    /\ \A j \in DOMAIN inv_results :
          /\ ~inv_results[j].success
          /\ HasCex(inv_results[j])
    /\ inv_results[1].logs # inv_results[2].logs

====
